---- MODULE Spec2Model ----
(***************************************************************************)
(* WhatsApp Group Notifier API: the POST /send-group handler, the ack wait *)
(* (waitForAck), the ack-level parser, the readiness flag and the start of *)
(* the process, as a state machine.  The most complete source variant      *)
(* (src/unnamed/part_002) is the reference; the onAck filter of            *)
(* src/unnamed/part_000, and the start-up, the handler and the inline ack  *)
(* wait of src/server.js (first listing), are modelled as further variants.*)
(*                                                                         *)
(* JavaScript strings are sequences of one-character strings, so that      *)
(* trim() and toLowerCase() are computed character by character.  The JS   *)
(* value undefined is the one-element tuple Undefined; an optional value   *)
(* of the model (a promise result, a response) is <<>> or <<value>>.       *)
(***************************************************************************)
EXTENDS Integers, Sequences, FiniteSets, TLC

VARIABLES
    variant,        \* which source variant runs
    isReady,        \* let isReady
    pc,             \* per request: where the async handler is suspended
    body,           \* per request: req.body as received (<<>> before arrival)
    readyAtStart,   \* per request: isReady when the handler started (history)
    loc,            \* per request: the handler's locals
    getChatsCalls,  \* per request: number of client.getChats() calls
    sendCalls,      \* per request: the arguments of each client.sendMessage call
    listed,         \* per request: the list getChats returned (<<>> or <<list>>)
    msg,            \* per request: the message handle sendMessage returned
    listeners,      \* client's "message_ack" listeners, in registration order
    timers,         \* armed setTimeout timers (one per wait, never cleared)
    settled,        \* per wait: let settled
    resolveCalls,   \* per wait: how often resolve(...) was called
    result,         \* per wait: the promise's value (<<>> while pending)
    response,       \* per request: the HTTP response (<<>> until sent)
    qualObserved,   \* per wait: a qualifying event was emitted in the window (history)
    firstQual,      \* per wait: level of the first such event (history)
    laterHigher,    \* per wait: a later such event carried a higher level (history)
    resolvers,      \* per wait: messages whose event resolved the wait (history)
    timerFired,     \* per wait: the timer callback has run (history)
    lastSub,        \* per wait: level of the latest ignored event for its id (history)
    earlyQual,      \* per request: a qualifying event came before the listener (history)
    parseIn,        \* parseAckLevel under test: <<s, fallback>>
    parseOut,       \* parseAckLevel under test: <<>> or <<returned object>>
    env,            \* process.env: BOT_TOKEN, MONGO_URL, WA_BACKUP_MS
    proc,           \* the process: stage of the module's top level, exit code, backup
    lastLifecycle,  \* the latest of ready / disconnected / auth_failure (history)
    health          \* the latest GET /healthz response (<<>> before the first)

vars == <<variant, isReady, pc, body, readyAtStart, loc, getChatsCalls, sendCalls,
          listed, msg, listeners, timers, settled, resolveCalls, result, response,
          qualObserved, firstQual, laterHigher, resolvers, timerFired, lastSub,
          earlyQual, parseIn, parseOut, env, proc, lastLifecycle, health>>

(***************************************************************************)
(* Bounds                                                                  *)
(***************************************************************************)
MaxReq == 1      \* concurrent POST /send-group requests (Spec)
MaxWaits == 2    \* concurrent waitForAck calls (SpecWait)
MaxAckLen == 2   \* length of the arbitrary strings given to parseAckLevel (SpecParse)

Reqs == 1..MaxReq
Waits == 1..MaxWaits
Slots == Reqs \cup Waits

(***************************************************************************)
(* JavaScript values and strings                                           *)
(***************************************************************************)
Undefined == <<"undefined">>

Truthy(v) == v # Undefined /\ v # <<>>

\* String(v || "")
StringOrEmpty(v) == IF Truthy(v) THEN v ELSE <<>>

UpperChars == <<"A","B","C","D","E","F","G","H","I","J","K","L","M",
                "N","O","P","Q","R","S","T","U","V","W","X","Y","Z">>
LowerChars == <<"a","b","c","d","e","f","g","h","i","j","k","l","m",
                "n","o","p","q","r","s","t","u","v","w","x","y","z">>

ToLowerChar(c) ==
    IF \E i \in 1..26 : UpperChars[i] = c
    THEN LowerChars[CHOOSE i \in 1..26 : UpperChars[i] = c]
    ELSE c

ToLowerCase(s) == [i \in 1..Len(s) |-> ToLowerChar(s[i])]

WhiteSpace == {" ", "\t", "\n"}

RECURSIVE TrimStart(_)
TrimStart(s) ==
    IF s # <<>> /\ Head(s) \in WhiteSpace THEN TrimStart(Tail(s)) ELSE s

RECURSIVE TrimEnd(_)
TrimEnd(s) ==
    IF s # <<>> /\ s[Len(s)] \in WhiteSpace
    THEN TrimEnd(SubSeq(s, 1, Len(s) - 1))
    ELSE s

Trim(s) == TrimEnd(TrimStart(s))

(***************************************************************************)
(* Configuration (ENV)                                                     *)
(***************************************************************************)
BOT_TOKEN == <<"s","3","c">>
ACK_LEVEL_DEFAULT == <<"d","e","v","i","c","e">>
ACK_TIMEOUT_MS == 20000

(***************************************************************************)
(* parseAckLevel                                                           *)
(***************************************************************************)
S_server == <<"s","e","r","v","e","r">>
S_device == <<"d","e","v","i","c","e">>
S_read == <<"r","e","a","d">>
S_played == <<"p","l","a","y","e","d">>
S_constructor == <<"c","o","n","s","t","r","u","c","t","o","r">>
S_proto == <<"_","_","p","r","o","t","o","_","_">>
S_toString == <<"t","o","S","t","r","i","n","g">>
S_valueOf == <<"v","a","l","u","e","O","f">>

AckNamesOwn == {S_server, S_device, S_read, S_played}

\* Property names every object literal inherits from Object.prototype.
ObjectPrototypeKeys == {S_constructor, S_proto, S_toString, S_valueOf}

\* The value of an inherited property: an object or a function.  It is truthy,
\* and every relational comparison of a number with it is false (it converts to NaN).
ProtoValue == -1

\* AckMap[k]: own properties first, then the prototype chain; 0 stands for undefined.
AckMap(k) ==
    CASE k = S_server -> 1
      [] k = S_device -> 2
      [] k = S_read -> 3
      [] k = S_played -> 4
      [] k \in ObjectPrototypeKeys -> ProtoValue
      [] OTHER -> 0

parseAckLevel(s, fallback) ==
    LET k == ToLowerCase(IF Truthy(s) THEN s ELSE fallback)
    IN  IF AckMap(k) # 0
        THEN [name |-> k, code |-> AckMap(k)]
        ELSE [name |-> S_server, code |-> 1]

(***************************************************************************)
(* Start-up: the environment, Number(), the guards before the first await   *)
(***************************************************************************)
Digits == <<"0","1","2","3","4","5","6","7","8","9">>

IsDigit(c) == \E i \in 1..10 : Digits[i] = c

DigitValue(c) == (CHOOSE i \in 1..10 : Digits[i] = c) - 1

RECURSIVE DecimalValue(_)
DecimalValue(s) ==
    IF s = <<>> THEN 0
    ELSE 10 * DecimalValue(SubSeq(s, 1, Len(s) - 1)) + DigitValue(s[Len(s)])

NaN == [nan |-> TRUE, val |-> 0]
Num(n) == [nan |-> FALSE, val |-> n]

\* Number(s) for a string of blanks, an optional sign and decimal digits; every
\* other string of the inputs below is not a numeric literal and gives NaN.
NumberOf(s) ==
    LET t == Trim(s)
        signed == t # <<>> /\ Head(t) \in {"-", "+"}
        d == IF signed THEN Tail(t) ELSE t
    IN  IF t = <<>> THEN Num(0)
        ELSE IF d = <<>> \/ \E i \in 1..Len(d) : ~IsDigit(d[i]) THEN NaN
        ELSE IF Head(t) = "-" THEN Num(0 - DecimalValue(d))
        ELSE Num(DecimalValue(d))

\* process.env.WA_BACKUP_MS ?? "0"
BACKUP_MS_RAW(e) == IF e.WA_BACKUP_MS = Undefined THEN <<"0">> ELSE e.WA_BACKUP_MS

\* Number(BACKUP_MS_RAW)
BACKUP_MS(e) == NumberOf(BACKUP_MS_RAW(e))

\* if (!BOT_TOKEN || !MONGO_URL) process.exit(1), on process.env.X || ""
RequiredEnvMissing(e) ==
    StringOrEmpty(e.BOT_TOKEN) = <<>> \/ StringOrEmpty(e.MONGO_URL) = <<>>

\* src/unnamed/part_002: the two guards on BACKUP_MS
BackupMsInvalid(e) ==
    LET n == BACKUP_MS(e)
    IN  \/ n.nan \/ n.val < 0
        \/ n.val # 0 /\ n.val < 60000

\* The guards before the first await: TRUE when process.exit(1) is called.
\* src/server.js has the first guard only.
GuardsExit(v, e) ==
    IF v = "server.js"
    THEN RequiredEnvMissing(e)
    ELSE RequiredEnvMissing(e) \/ BackupMsInvalid(e)

\* The interval the periodic backup runs with, <<>> when there is none.
\* part_002: if (BACKUP_MS >= 60000) setInterval(..., BACKUP_MS)
\* server.js: if (BACKUP_MS_ENV) { n = Number(..); if (isFinite(n) && n >= 60000) .. }
BackupInterval(v, e) ==
    IF v = "server.js"
    THEN IF Truthy(e.WA_BACKUP_MS) /\ ~NumberOf(e.WA_BACKUP_MS).nan
                                   /\ NumberOf(e.WA_BACKUP_MS).val >= 60000
         THEN <<NumberOf(e.WA_BACKUP_MS).val>> ELSE <<>>
    ELSE IF ~BACKUP_MS(e).nan /\ BACKUP_MS(e).val >= 60000
         THEN <<BACKUP_MS(e).val>> ELSE <<>>

S_mongo == <<"m","o","n","g","o","d","b",":","/","/","h">>

SecretInputs == {Undefined, <<>>, BOT_TOKEN}
StoreInputs == {Undefined, <<>>, S_mongo}
BackupInputs ==
    {Undefined, <<>>, <<" ">>, <<"0">>, <<"a","b","c">>, <<"-","5">>, <<"-","0">>, <<"1">>,
     <<"5","0","0","0">>, <<"5","9","9","9","9">>, <<"6","0","0","0","0">>,
     <<" ","6","0","0","0","0"," ">>, <<"+","9","0","0","0","0">>, <<"6","0","0","0","0","m","s">>}

Envs == [BOT_TOKEN : SecretInputs, MONGO_URL : StoreInputs, WA_BACKUP_MS : BackupInputs]

\* The environment of the running server of the other specifications.
ServingEnv == [BOT_TOKEN |-> BOT_TOKEN, MONGO_URL |-> S_mongo, WA_BACKUP_MS |-> Undefined]

Proc(stage, exitCode, backup) == [stage |-> stage, exitCode |-> exitCode, backup |-> backup]

(***************************************************************************)
(* Inputs: request bodies, conversation lists, message handles, ack events *)
(***************************************************************************)
Tokens == {BOT_TOKEN, <<"b","a","d">>, Undefined}
GroupInputs == {Undefined, <<" ","D","e","v"," ">>, <<"o","p","s">>}
GroupIdInputs == {Undefined, <<" ">>, <<" ","g","1">>, <<"g","9">>}
MessageInputs == {Undefined, <<" ">>, <<"h","i"," ">>}
AckInputs == {Undefined, <<"R","e","a","d">>, <<"c","o","n","s","t","r","u","c","t","o","r">>}
TimeoutInputs == {<<>>, <<0>>, <<7>>}

Bodies ==
    [token : Tokens, group : GroupInputs, groupId : GroupIdInputs,
     message : MessageInputs, ack : AckInputs, timeoutMs : TimeoutInputs]

Chat(id, name, isGroup) == [id |-> id, name |-> name, isGroup |-> isGroup]

\* Lists client.getChats() may return; the order is the adapter's.
ChatLists ==
    { << Chat(<<"c","1">>, <<"d","e","v">>, FALSE),
         Chat(<<"g","1">>, <<"D","E","V">>, TRUE),
         Chat(<<"g","2">>, <<"d","e","v">>, TRUE) >>,
      << Chat(<<"g","2">>, <<"d","e","v">>, TRUE),
         Chat(<<"g","1">>, <<"D","E","V">>, TRUE) >>,
      << Chat(<<"c","1">>, <<"D","e","v">>, FALSE),
         Chat(<<"g","3">>, <<" ","d","e","v">>, TRUE),
         Chat(<<"g","4">>, Undefined, TRUE) >> }

\* Conversations the transport knows; sendMessage to any other id is rejected.
ExistingChatIds == UNION {{l[i].id : i \in 1..Len(l)} : l \in ChatLists}

Levels == 0..4

MsgIdOf(m) == <<"m", ToString(m)>>

\* The shapes of a message object: id._serialized set, only _serialized set, neither.
IdForms == {"id", "top", "none"}

Handle(m, form, ack) ==
    [idSer |-> IF form = "id" THEN MsgIdOf(m) ELSE Undefined,
     ser |-> IF form = "top" THEN MsgIdOf(m) ELSE Undefined,
     ack |-> ack]

\* message.ack as sendMessage returns it: undefined or a level.
HandleAcks == {<<>>, <<0>>, <<3>>}

\* message.id?._serialized || message._serialized
SerializedId(m) == IF Truthy(m.idSer) THEN m.idSer ELSE m.ser

(***************************************************************************)
(* waitForAck: the pieces of the closure                                   *)
(***************************************************************************)
\* Variant of OnAckIdPasses: every event that carries an identifier passes.
OnAckIdPassesAnyId(v, id, targetId) == Truthy(id)

\* onAck's identifier filter: true when the event passes it.
OnAckIdPasses(v, id, targetId) ==
    IF v = "part_002"
    THEN ~(~Truthy(id) \/ id # targetId)
    ELSE id = targetId

\* Variant of AckReached: the comparison is strict.
AckReachedStrict(ack, minAckCode) == minAckCode # ProtoValue /\ ack > minAckCode

\* ack >= minAckCode
AckReached(ack, minAckCode) == minAckCode # ProtoValue /\ ack >= minAckCode

\* Variant of EventResolution: the requested level is reported, not the observed one.
EventResolutionOfMinimum(ack, minAckCode) == [ack |-> minAckCode, timedOut |-> FALSE]

\* resolve({ ack, timedOut: false })
EventResolution(ack, minAckCode) == [ack |-> ack, timedOut |-> FALSE]

\* Variant of RemoveListeners: cleanup() sets settled and leaves the listener.
RemoveListenersKeepsThem(ls, removed) == ls

\* client.removeListener("message_ack", onAck), for the onAck of each wait in removed
RemoveListeners(ls, removed) == SelectSeq(ls, LAMBDA x : x \notin removed)

\* Variant of SettledAfterCleanup: cleanup() removes the listener and leaves settled.
SettledAfterCleanupUnchanged(isSettled) == isSettled

\* cleanup(): settled = true
SettledAfterCleanup(isSettled) == TRUE

\* Variant of TimerMayResolve: the settled guard is missing.
TimerAlwaysResolves(isSettled) == TRUE

\* if (!settled) in the timer callback
TimerMayResolve(isSettled) == ~isSettled

\* Variant of TimeoutResolution: server is reported whatever the handle holds.
TimeoutResolutionAlwaysServer(message) == [ack |-> 1, timedOut |-> TRUE]

\* resolve({ ack: message.ack ?? 1, timedOut: true })
TimeoutResolution(message) ==
    [ack |-> IF message.ack = <<>> THEN 1 ELSE message.ack[1], timedOut |-> TRUE]

(***************************************************************************)
(* POST /send-group: the pieces of the handler                             *)
(***************************************************************************)
\* Variant of requireBodyToken: a body without the field is let through.
requireBodyTokenAcceptsAbsent(b) == b.token = BOT_TOKEN \/ b.token = Undefined

\* const t = req.body?.["bot-token"]; if (t === BOT_TOKEN) return next();
requireBodyToken(b) == b.token = BOT_TOKEN

\* Number(req.body?.timeoutMs || ACK_TIMEOUT_MS)
TimeoutOf(t) == IF t # <<>> /\ t[1] # 0 THEN t[1] ELSE ACK_TIMEOUT_MS

\* Variant of EntryOutcome: the name is preferred over the explicit identifier.
EntryOutcomeNameFirst(ready, b) ==
    CASE ~requireBodyToken(b) -> "401"
      [] ~ready -> "503"
      [] Trim(StringOrEmpty(b.message)) = <<>> -> "400message"
      [] Trim(StringOrEmpty(b.group)) # <<>> -> "byName"
      [] Trim(StringOrEmpty(b.groupId)) # <<>> -> "byId"
      [] OTHER -> "400target"

\* Variant of EntryOutcome: the body is validated before readiness is checked.
EntryOutcomeValidatesFirst(ready, b) ==
    CASE ~requireBodyToken(b) -> "401"
      [] Trim(StringOrEmpty(b.message)) = <<>> -> "400message"
      [] ~ready -> "503"
      [] Trim(StringOrEmpty(b.groupId)) # <<>> -> "byId"
      [] Trim(StringOrEmpty(b.group)) # <<>> -> "byName"
      [] OTHER -> "400target"

\* Variant of EntryOutcome: the message is not checked.
EntryOutcomeNoMessageCheck(ready, b) ==
    CASE ~requireBodyToken(b) -> "401"
      [] ~ready -> "503"
      [] Trim(StringOrEmpty(b.groupId)) # <<>> -> "byId"
      [] Trim(StringOrEmpty(b.group)) # <<>> -> "byName"
      [] OTHER -> "400target"

\* Variant of EntryOutcome: without groupId the name path is taken, empty or not.
EntryOutcomeNoTargetCheck(ready, b) ==
    CASE ~requireBodyToken(b) -> "401"
      [] ~ready -> "503"
      [] Trim(StringOrEmpty(b.message)) = <<>> -> "400message"
      [] Trim(StringOrEmpty(b.groupId)) # <<>> -> "byId"
      [] OTHER -> "byName"

\* The synchronous prefix of the handler up to its first await, as a decision.
EntryOutcome(ready, b) ==
    CASE ~requireBodyToken(b) -> "401"
      [] ~ready -> "503"
      [] Trim(StringOrEmpty(b.message)) = <<>> -> "400message"
      [] Trim(StringOrEmpty(b.groupId)) # <<>> -> "byId"
      [] Trim(StringOrEmpty(b.group)) # <<>> -> "byName"
      [] OTHER -> "400target"

\* Variant of ChatMatches: the isGroup flag is not looked at.
ChatMatchesAnyChat(c, group) ==
    ToLowerCase(StringOrEmpty(c.name)) = ToLowerCase(group)

\* c.isGroup && String(c.name || "").toLowerCase() === group.toLowerCase()
ChatMatches(c, group) ==
    c.isGroup /\ ToLowerCase(StringOrEmpty(c.name)) = ToLowerCase(group)

\* chats.find(...): the index of the first match, 0 when there is none.
RECURSIVE FindFrom(_, _, _)
FindFrom(chats, group, i) ==
    IF i > Len(chats) THEN 0
    ELSE IF ChatMatches(chats[i], group) THEN i
    ELSE FindFrom(chats, group, i + 1)

FindGroup(chats, group) == FindFrom(chats, group, 1)

S_error == <<"e","r","r","o","r">>
Null == <<"null">>

\* ackNames[ack] || String(ack)
AckStr(ack) ==
    CASE ack = 0 -> S_error
      [] ack = 1 -> S_server
      [] ack = 2 -> S_device
      [] ack = 3 -> S_read
      [] ack = 4 -> S_played
      [] OTHER -> <<ToString(ack)>>

ErrorResponse(status, text) == [status |-> status, error |-> text]

\* Variant of SuccessResponse: a timed-out wait is answered as an error.
SuccessResponseTimeoutIsError(l, m, res) ==
    IF res.timedOut
    THEN ErrorResponse(504, "ack timeout")
    ELSE [status |-> 200, ok |-> TRUE, groupId |-> l.chatId,
          messageId |-> IF Truthy(m.idSer) THEN m.idSer ELSE Null,
          ack |-> AckStr(res.ack), timedOut |-> res.timedOut,
          waitedFor |-> l.ackName, timeoutMs |-> l.timeoutMs]

\* res.json({ ok: true, ... }) after the wait
SuccessResponse(l, m, res) ==
    [status |-> 200, ok |-> TRUE, groupId |-> l.chatId,
     messageId |-> IF Truthy(m.idSer) THEN m.idSer ELSE Null,
     ack |-> AckStr(res.ack), timedOut |-> res.timedOut,
     waitedFor |-> l.ackName, timeoutMs |-> l.timeoutMs]

NoLocals ==
    [group |-> <<>>, groupId |-> <<>>, text |-> <<>>, ackName |-> <<>>,
     minAck |-> 0, timeoutMs |-> 0, chatId |-> Undefined]

Locals(b) ==
    [group |-> Trim(StringOrEmpty(b.group)),
     groupId |-> Trim(StringOrEmpty(b.groupId)),
     text |-> Trim(StringOrEmpty(b.message)),
     ackName |-> parseAckLevel(b.ack, ACK_LEVEL_DEFAULT).name,
     minAck |-> parseAckLevel(b.ack, ACK_LEVEL_DEFAULT).code,
     timeoutMs |-> TimeoutOf(b.timeoutMs),
     chatId |-> Undefined]

(***************************************************************************)
(* Initial state: the process has started, nothing has been requested.     *)
(***************************************************************************)
InitCommon ==
    /\ isReady = FALSE
    /\ pc = [r \in Slots |-> "idle"]
    /\ body = [r \in Slots |-> <<>>]
    /\ readyAtStart = [r \in Slots |-> FALSE]
    /\ loc = [r \in Slots |-> NoLocals]
    /\ getChatsCalls = [r \in Slots |-> 0]
    /\ sendCalls = [r \in Slots |-> <<>>]
    /\ listed = [r \in Slots |-> <<>>]
    /\ msg = [r \in Slots |-> <<>>]
    /\ listeners = <<>>
    /\ timers = {}
    /\ settled = [r \in Slots |-> FALSE]
    /\ resolveCalls = [r \in Slots |-> 0]
    /\ result = [r \in Slots |-> <<>>]
    /\ response = [r \in Slots |-> <<>>]
    /\ qualObserved = [r \in Slots |-> FALSE]
    /\ firstQual = [r \in Slots |-> <<>>]
    /\ laterHigher = [r \in Slots |-> FALSE]
    /\ resolvers = [r \in Slots |-> {}]
    /\ timerFired = [r \in Slots |-> FALSE]
    /\ lastSub = [r \in Slots |-> <<>>]
    /\ earlyQual = [r \in Slots |-> FALSE]
    /\ lastLifecycle = "none"
    /\ health = <<>>

\* The process is serving: app.listen has run.
InitServing == env = ServingEnv /\ proc = Proc("serving", <<>>, <<>>)

Init ==
    variant = "part_002" /\ InitCommon /\ InitServing /\ parseIn = <<>> /\ parseOut = <<>>

InitPart000 ==
    variant = "part_000" /\ InitCommon /\ InitServing /\ parseIn = <<>> /\ parseOut = <<>>

\* The process has been started with some environment; nothing has run yet.
InitStartup ==
    /\ InitCommon /\ parseIn = <<>> /\ parseOut = <<>>
    /\ env \in Envs
    /\ proc = Proc("start", <<>>, <<>>)

startVars == <<env, proc>>
probeVars == <<lastLifecycle, health>>
handlerVars == <<isReady, pc, body, readyAtStart, loc, getChatsCalls, sendCalls,
                 listed, msg, response>>
waitVars == <<listeners, timers, settled, resolveCalls, result,
              qualObserved, firstQual, laterHigher, resolvers, timerFired, lastSub,
              earlyQual>>
parseVars == <<parseIn, parseOut>>

InitStartupPart002 == variant = "part_002" /\ InitStartup

InitStartupServerJs == variant = "server.js" /\ InitStartup

(***************************************************************************)
(* Adapter lifecycle events                                                *)
(***************************************************************************)
OnReady ==
    /\ isReady' = TRUE
    /\ lastLifecycle' = "ready"
    /\ UNCHANGED <<variant, pc, body, readyAtStart, loc, getChatsCalls, sendCalls,
                   listed, msg, response, waitVars, parseVars, startVars, health>>

OnDisconnected ==
    /\ isReady' = FALSE
    /\ lastLifecycle' = "disconnected"
    /\ UNCHANGED <<variant, pc, body, readyAtStart, loc, getChatsCalls, sendCalls,
                   listed, msg, response, waitVars, parseVars, startVars, health>>

OnAuthFailure ==
    /\ isReady' = FALSE
    /\ lastLifecycle' = "auth_failure"
    /\ UNCHANGED <<variant, pc, body, readyAtStart, loc, getChatsCalls, sendCalls,
                   listed, msg, response, waitVars, parseVars, startVars, health>>

(***************************************************************************)
(* GET /healthz                                                            *)
(***************************************************************************)
\* The body of the /healthz response.
HealthzResponse(ready) ==
    [ok |-> TRUE, ready |-> ready,
     ackDefault |-> ACK_LEVEL_DEFAULT, ackTimeoutMs |-> ACK_TIMEOUT_MS]

\* GET /healthz: reads isReady and answers; it needs no token.
Healthz ==
    /\ health' = <<HealthzResponse(isReady)>>
    /\ UNCHANGED <<variant, handlerVars, waitVars, parseVars, startVars, lastLifecycle>>

(***************************************************************************)
(* POST /send-group                                                        *)
(***************************************************************************)
\* A request arrives: requireBodyToken and the handler up to its first await.
Request(r, b) ==
    /\ pc[r] = "idle"
    /\ body' = [body EXCEPT ![r] = <<b>>]
    /\ readyAtStart' = [readyAtStart EXCEPT ![r] = isReady]
    /\ LET o == EntryOutcome(isReady, b)
           l == Locals(b)
       IN  CASE o = "401" ->
                 /\ response' = [response EXCEPT ![r] = <<ErrorResponse(401, "unauthorized")>>]
                 /\ pc' = [pc EXCEPT ![r] = "done"]
                 /\ UNCHANGED <<loc, getChatsCalls, sendCalls>>
             [] o = "503" ->
                 /\ response' = [response EXCEPT ![r] = <<ErrorResponse(503, "whatsapp not ready")>>]
                 /\ pc' = [pc EXCEPT ![r] = "done"]
                 /\ UNCHANGED <<loc, getChatsCalls, sendCalls>>
             [] o = "400message" ->
                 /\ response' = [response EXCEPT ![r] = <<ErrorResponse(400, "message is required")>>]
                 /\ pc' = [pc EXCEPT ![r] = "done"]
                 /\ UNCHANGED <<loc, getChatsCalls, sendCalls>>
             [] o = "byId" ->
                 /\ loc' = [loc EXCEPT ![r] = [l EXCEPT !.chatId = l.groupId]]
                 /\ sendCalls' = [sendCalls EXCEPT ![r] = Append(@, <<l.groupId, l.text>>)]
                 /\ pc' = [pc EXCEPT ![r] = "sendMessage"]
                 /\ UNCHANGED <<response, getChatsCalls>>
             [] o = "byName" ->
                 /\ loc' = [loc EXCEPT ![r] = l]
                 /\ getChatsCalls' = [getChatsCalls EXCEPT ![r] = @ + 1]
                 /\ pc' = [pc EXCEPT ![r] = "getChats"]
                 /\ UNCHANGED <<response, sendCalls>>
             [] OTHER ->
                 /\ response' = [response EXCEPT ![r] = <<ErrorResponse(400, "groupId or group is required")>>]
                 /\ pc' = [pc EXCEPT ![r] = "done"]
                 /\ UNCHANGED <<loc, getChatsCalls, sendCalls>>
    /\ UNCHANGED <<variant, isReady, listed, msg, waitVars, parseVars, startVars, probeVars>>

\* client.getChats() returns: chats.find, then 404 or the sendMessage call.
GetChatsReturn(r, chats) ==
    /\ pc[r] = "getChats"
    /\ listed' = [listed EXCEPT ![r] = <<chats>>]
    /\ LET i == FindGroup(chats, loc[r].group)
       IN  IF i = 0
           THEN /\ response' = [response EXCEPT ![r] = <<ErrorResponse(404, "group not found")>>]
                /\ pc' = [pc EXCEPT ![r] = "done"]
                /\ UNCHANGED <<loc, sendCalls>>
           ELSE /\ loc' = [loc EXCEPT ![r].chatId = chats[i].id]
                /\ sendCalls' = [sendCalls EXCEPT ![r] = Append(@, <<chats[i].id, loc[r].text>>)]
                /\ pc' = [pc EXCEPT ![r] = "sendMessage"]
                /\ UNCHANGED response
    /\ UNCHANGED <<variant, isReady, body, readyAtStart, getChatsCalls, msg,
                   waitVars, parseVars, startVars, probeVars>>

\* Variant of AwaitThrows: a rejected sendMessage is tried once more.
AwaitThrowsRetries(r) ==
    /\ pc[r] \in {"getChats", "sendMessage"}
    /\ IF pc[r] = "sendMessage" /\ Len(sendCalls[r]) < 2
       THEN /\ sendCalls' = [sendCalls EXCEPT ![r] = Append(@, @[1])]
            /\ UNCHANGED <<response, pc>>
       ELSE /\ response' = [response EXCEPT ![r] = <<ErrorResponse(500, "send failed")>>]
            /\ pc' = [pc EXCEPT ![r] = "done"]
            /\ UNCHANGED sendCalls
    /\ UNCHANGED <<variant, isReady, body, readyAtStart, loc, getChatsCalls,
                   listed, msg, waitVars, parseVars, startVars, probeVars>>

\* Variant of AwaitThrows: the catch block also marks the client as not ready.
AwaitThrowsMarksNotReady(r) ==
    /\ pc[r] \in {"getChats", "sendMessage"}
    /\ isReady' = FALSE
    /\ response' = [response EXCEPT ![r] = <<ErrorResponse(500, "send failed")>>]
    /\ pc' = [pc EXCEPT ![r] = "done"]
    /\ UNCHANGED <<variant, body, readyAtStart, loc, getChatsCalls, sendCalls,
                   listed, msg, waitVars, parseVars, startVars, probeVars>>

\* client.getChats() or client.sendMessage() rejects: the catch block.
AwaitThrows(r) ==
    /\ pc[r] \in {"getChats", "sendMessage"}
    /\ response' = [response EXCEPT ![r] = <<ErrorResponse(500, "send failed")>>]
    /\ pc' = [pc EXCEPT ![r] = "done"]
    /\ UNCHANGED <<variant, isReady, body, readyAtStart, loc, getChatsCalls, sendCalls,
                   listed, msg, waitVars, parseVars, startVars, probeVars>>

\* The transport accepts the message: the handle exists, the handler has not resumed.
SendAccept(r, form, ack) ==
    /\ pc[r] = "sendMessage"
    /\ loc[r].chatId \in ExistingChatIds
    /\ msg' = [msg EXCEPT ![r] = <<Handle(r, form, ack)>>]
    /\ pc' = [pc EXCEPT ![r] = "accepted"]
    /\ UNCHANGED <<variant, isReady, body, readyAtStart, loc, getChatsCalls, sendCalls,
                   listed, response, waitVars, parseVars, startVars, probeVars>>

\* Variant of ArmTimer: waitForAck without its setTimeout call.
ArmTimerNever(ts, r) == ts

\* setTimeout(..., timeoutMs) in waitForAck: the timer of wait r is armed.
ArmTimer(ts, r) == ts \cup {r}

\* The handler resumes from sendMessage and calls waitForAck: listener and timer.
SendResume(r) ==
    /\ pc[r] = "accepted"
    /\ listeners' = Append(listeners, r)
    /\ timers' = ArmTimer(timers, r)
    /\ pc' = [pc EXCEPT ![r] = "waitForAck"]
    /\ UNCHANGED <<variant, isReady, body, readyAtStart, loc, getChatsCalls, sendCalls,
                   listed, msg, response, settled, resolveCalls, result,
                   qualObserved, firstQual, laterHigher, resolvers, timerFired, lastSub,
                   earlyQual, parseVars, startVars, probeVars>>

(***************************************************************************)
(* waitForAck: the message_ack event and the timer                         *)
(***************************************************************************)
IsListening(r) == \E i \in 1..Len(listeners) : listeners[i] = r

\* The identifier an event about message m carries (0 is a message of another sender).
EventId(m, withId) ==
    IF withId /\ (m = 0 \/ Truthy(SerializedId(msg[m][1])))
    THEN MsgIdOf(m)
    ELSE Undefined

\* onAck of wait r runs cleanup() and resolve() for this event.
OnAckResolves(r, id, ack) ==
    /\ IsListening(r)
    /\ OnAckIdPasses(variant, id, SerializedId(msg[r][1]))
    /\ AckReached(ack, loc[r].minAck)

\* History: the event is one for the awaited identifier at a level >= the minimum,
\* emitted after waitForAck was called and before its timer fired.
QualifyingInWindow(r, id, ack) ==
    /\ r \in timers
    /\ Truthy(id)
    /\ id = SerializedId(msg[r][1])
    /\ loc[r].minAck \in 1..4
    /\ ack >= loc[r].minAck

\* History: the event is one for the awaited identifier at a level below the
\* minimum, emitted while the wait is pending.
SubThresholdWhilePending(r, id, ack) ==
    /\ r \in timers
    /\ result[r] = <<>>
    /\ Truthy(id)
    /\ id = SerializedId(msg[r][1])
    /\ loc[r].minAck \in 1..4
    /\ ack < loc[r].minAck

\* History: the event is one for the awaited identifier at a level >= the minimum,
\* emitted after the transport accepted the message and before the handler has
\* resumed from sendMessage.
QualifyingBeforeListener(r, id, ack) ==
    /\ pc[r] = "accepted"
    /\ Truthy(id)
    /\ id = SerializedId(msg[r][1])
    /\ loc[r].minAck \in 1..4
    /\ ack >= loc[r].minAck

\* client.emit("message_ack", msg, ack): every registered onAck runs.
Emit(m, withId, ack) ==
    /\ m = 0 \/ (m \in Slots /\ msg[m] # <<>>)
    /\ LET id == EventId(m, withId)
           hit(r) == OnAckResolves(r, id, ack)
           first(r) == hit(r) /\ result[r] = <<>>
       IN  /\ listeners' = RemoveListeners(listeners, {r \in Slots : hit(r)})
           /\ settled' = [r \in Slots |->
                 IF hit(r) THEN SettledAfterCleanup(settled[r]) ELSE settled[r]]
           /\ resolveCalls' = [r \in Slots |-> resolveCalls[r] + IF hit(r) THEN 1 ELSE 0]
           /\ result' = [r \in Slots |->
                 IF first(r) THEN <<EventResolution(ack, loc[r].minAck)>> ELSE result[r]]
           /\ response' = [r \in Slots |->
                 IF first(r) /\ body[r] # <<>>
                 THEN <<SuccessResponse(loc[r], msg[r][1], EventResolution(ack, loc[r].minAck))>>
                 ELSE response[r]]
           /\ pc' = [r \in Slots |-> IF first(r) THEN "done" ELSE pc[r]]
           /\ resolvers' = [r \in Slots |-> IF hit(r) THEN resolvers[r] \cup {m} ELSE resolvers[r]]
           /\ qualObserved' = [r \in Slots |-> qualObserved[r] \/ QualifyingInWindow(r, id, ack)]
           /\ firstQual' = [r \in Slots |->
                 IF firstQual[r] = <<>> /\ QualifyingInWindow(r, id, ack)
                 THEN <<ack>> ELSE firstQual[r]]
           /\ laterHigher' = [r \in Slots |->
                 \/ laterHigher[r]
                 \/ /\ QualifyingInWindow(r, id, ack)
                    /\ firstQual[r] # <<>>
                    /\ ack > firstQual[r][1]]
           /\ lastSub' = [r \in Slots |->
                 IF SubThresholdWhilePending(r, id, ack) THEN <<ack>> ELSE lastSub[r]]
           /\ earlyQual' = [r \in Slots |->
                 earlyQual[r] \/ QualifyingBeforeListener(r, id, ack)]
    /\ UNCHANGED <<variant, isReady, body, readyAtStart, loc, getChatsCalls, sendCalls,
                   listed, msg, timers, timerFired, parseVars, startVars, probeVars>>

\* The setTimeout callback of wait r runs.
TimerFire(r) ==
    /\ r \in timers
    /\ timers' = timers \ {r}
    /\ timerFired' = [timerFired EXCEPT ![r] = TRUE]
    /\ IF TimerMayResolve(settled[r])
       THEN /\ settled' = [settled EXCEPT ![r] = SettledAfterCleanup(@)]
            /\ listeners' = RemoveListeners(listeners, {r})
            /\ resolveCalls' = [resolveCalls EXCEPT ![r] = @ + 1]
            /\ IF result[r] = <<>>
               THEN /\ result' = [result EXCEPT ![r] = <<TimeoutResolution(msg[r][1])>>]
                    /\ response' = [response EXCEPT ![r] =
                          IF body[r] # <<>>
                          THEN <<SuccessResponse(loc[r], msg[r][1], TimeoutResolution(msg[r][1]))>>
                          ELSE <<>>]
                    /\ pc' = [pc EXCEPT ![r] = "done"]
               ELSE UNCHANGED <<result, response, pc>>
       ELSE UNCHANGED <<settled, listeners, resolveCalls, result, response, pc>>
    /\ UNCHANGED <<variant, isReady, body, readyAtStart, loc, getChatsCalls, sendCalls,
                   listed, msg, qualObserved, firstQual, laterHigher, resolvers, lastSub,
                   earlyQual, parseVars, startVars, probeVars>>

(***************************************************************************)
(* waitForAck called on its own, and parseAckLevel called on its own       *)
(***************************************************************************)
\* The minimum codes a caller can pass: parseAckLevel's codes.
MinAckCodes == {1, 3, ProtoValue}

\* waitForAck(message, minAckCode, timeoutMs) is called: listener and timer.
CallWaitForAck(w, form, hAck, minAckCode, timeoutMs) ==
    /\ pc[w] = "idle"
    /\ msg' = [msg EXCEPT ![w] = <<Handle(w, form, hAck)>>]
    /\ loc' = [loc EXCEPT ![w] = [NoLocals EXCEPT !.minAck = minAckCode,
                                                   !.timeoutMs = timeoutMs]]
    /\ listeners' = Append(listeners, w)
    /\ timers' = ArmTimer(timers, w)
    /\ pc' = [pc EXCEPT ![w] = "waitForAck"]
    /\ UNCHANGED <<variant, isReady, body, readyAtStart, getChatsCalls, sendCalls,
                   listed, response, settled, resolveCalls, result,
                   qualObserved, firstQual, laterHigher, resolvers, timerFired, lastSub,
                   earlyQual, parseVars, startVars, probeVars>>

RECURSIVE SeqsUpTo(_, _)
SeqsUpTo(chars, n) ==
    IF n = 0 THEN {<<>>}
    ELSE LET shorter == SeqsUpTo(chars, n - 1)
         IN  shorter \cup {Append(t, c) : t \in shorter, c \in chars}

ParseWords ==
    {S_server, S_device, S_read, S_played, S_constructor, S_proto, S_toString, S_valueOf,
     <<"S","E","R","V","E","R">>, <<"D","e","v","i","c","e">>, <<"R","E","A","D">>,
     <<"P","l","a","y","e","D">>, <<"C","o","n","s","t","r","u","c","t","o","r">>,
     <<"s","e","e","n">>, <<"r","e","a","d"," ">>, <<"1">>, Undefined}

ParseInputs == ParseWords \cup SeqsUpTo({"r", "R", "e", "a", "d", "D"}, MaxAckLen)

ParseFallbacks == {S_device, S_read, <<"n","o","n","e">>}

InitParse ==
    /\ variant = "part_002"
    /\ InitCommon
    /\ InitServing
    /\ parseIn \in {<<s, f>> : s \in ParseInputs, f \in ParseFallbacks}
    /\ parseOut = <<>>

\* parseAckLevel(s, fallback) is called.
CallParseAckLevel ==
    /\ parseOut = <<>>
    /\ parseOut' = <<parseAckLevel(parseIn[1], parseIn[2])>>
    /\ UNCHANGED <<variant, isReady, pc, body, readyAtStart, loc, getChatsCalls,
                   sendCalls, listed, msg, response, waitVars, parseIn, startVars, probeVars>>

(***************************************************************************)
(* src/server.js (first listing): POST /send-group with getChatById and the *)
(* inline ack wait                                                         *)
(***************************************************************************)
\* server.js reads group, groupId, message and bot-token only.
BodiesServerJs == {b \in Bodies : b.ack = Undefined /\ b.timeoutMs = <<>>}

\* The conversations client.getChatById can return.
AllChats == UNION {{l[i] : i \in 1..Len(l)} : l \in ChatLists}

InitServerJs ==
    variant = "server.js" /\ InitCommon /\ InitServing /\ parseIn = <<>> /\ parseOut = <<>>

\* The synchronous prefix of server.js's handler up to its first await.
EntryOutcomeServerJs(ready, b) ==
    CASE ~requireBodyToken(b) -> "401"
      [] ~ready -> "503"
      [] \/ Trim(StringOrEmpty(b.group)) = <<>> /\ Trim(StringOrEmpty(b.groupId)) = <<>>
         \/ Trim(StringOrEmpty(b.message)) = <<>> -> "400"
      [] Trim(StringOrEmpty(b.groupId)) # <<>> -> "byId"
      [] OTHER -> "byName"

LocalsServerJs(b) ==
    [NoLocals EXCEPT !.group = Trim(StringOrEmpty(b.group)),
                     !.groupId = Trim(StringOrEmpty(b.groupId)),
                     !.text = Trim(StringOrEmpty(b.message)),
                     !.minAck = 1,
                     !.timeoutMs = 10000]

\* A request arrives at server.js: requireBodyToken and the handler up to its first await.
RequestServerJs(r, b) ==
    /\ pc[r] = "idle"
    /\ body' = [body EXCEPT ![r] = <<b>>]
    /\ readyAtStart' = [readyAtStart EXCEPT ![r] = isReady]
    /\ LET o == EntryOutcomeServerJs(isReady, b)
       IN  CASE o = "401" ->
                 /\ response' = [response EXCEPT ![r] = <<ErrorResponse(401, "unauthorized")>>]
                 /\ pc' = [pc EXCEPT ![r] = "done"]
                 /\ UNCHANGED <<loc, getChatsCalls>>
             [] o = "503" ->
                 /\ response' = [response EXCEPT ![r] = <<ErrorResponse(503, "whatsapp not ready")>>]
                 /\ pc' = [pc EXCEPT ![r] = "done"]
                 /\ UNCHANGED <<loc, getChatsCalls>>
             [] o = "400" ->
                 /\ response' = [response EXCEPT ![r] =
                       <<ErrorResponse(400, "provide group or groupId and a message")>>]
                 /\ pc' = [pc EXCEPT ![r] = "done"]
                 /\ UNCHANGED <<loc, getChatsCalls>>
             [] o = "byId" ->
                 /\ loc' = [loc EXCEPT ![r] = LocalsServerJs(b)]
                 /\ pc' = [pc EXCEPT ![r] = "getChatById"]
                 /\ UNCHANGED <<response, getChatsCalls>>
             [] OTHER ->
                 /\ loc' = [loc EXCEPT ![r] = LocalsServerJs(b)]
                 /\ getChatsCalls' = [getChatsCalls EXCEPT ![r] = @ + 1]
                 /\ pc' = [pc EXCEPT ![r] = "getChats"]
                 /\ UNCHANGED response
    /\ UNCHANGED <<variant, isReady, sendCalls, listed, msg, waitVars, parseVars, startVars, probeVars>>

\* client.getChatById(groupIdReq) returns the conversation: 400 or the sendMessage call.
GetChatByIdReturn(r, chat) ==
    /\ pc[r] = "getChatById"
    /\ chat.id = loc[r].groupId
    /\ IF ~chat.isGroup
       THEN /\ response' = [response EXCEPT ![r] = <<ErrorResponse(400, "groupId is not a group")>>]
            /\ pc' = [pc EXCEPT ![r] = "done"]
            /\ UNCHANGED <<loc, sendCalls>>
       ELSE /\ loc' = [loc EXCEPT ![r].chatId = chat.id]
            /\ sendCalls' = [sendCalls EXCEPT ![r] = Append(@, <<chat.id, loc[r].text>>)]
            /\ pc' = [pc EXCEPT ![r] = "sendMessage"]
            /\ UNCHANGED response
    /\ UNCHANGED <<variant, isReady, body, readyAtStart, getChatsCalls, listed, msg,
                   waitVars, parseVars, startVars, probeVars>>

\* client.getChatById(groupIdReq) rejects: the inner catch.
GetChatByIdThrows(r) ==
    /\ pc[r] = "getChatById"
    /\ response' = [response EXCEPT ![r] = <<ErrorResponse(404, "groupId not found")>>]
    /\ pc' = [pc EXCEPT ![r] = "done"]
    /\ UNCHANGED <<variant, isReady, body, readyAtStart, loc, getChatsCalls, sendCalls,
                   listed, msg, waitVars, parseVars, startVars, probeVars>>

\* The handler resumes from sendMessage: new Promise(...) arms the 10 s timer and
\* registers onAck.
SendResumeServerJs(r) ==
    /\ pc[r] = "accepted"
    /\ timers' = timers \cup {r}
    /\ listeners' = Append(listeners, r)
    /\ pc' = [pc EXCEPT ![r] = "waitForAck"]
    /\ UNCHANGED <<variant, isReady, body, readyAtStart, loc, getChatsCalls, sendCalls,
                   listed, msg, response, settled, resolveCalls, result,
                   qualObserved, firstQual, laterHigher, resolvers, timerFired, lastSub,
                   earlyQual, parseVars, startVars, probeVars>>

S_pending == <<"p","e","n","d","i","n","g">>

\* res.json({ ok: true, groupId, messageId: sent.id._serialized, ack }); reading
\* sent.id._serialized of a handle without id throws into the catch block.
ResponseServerJs(l, m, acked) ==
    IF Truthy(m.idSer)
    THEN [status |-> 200, ok |-> TRUE, groupId |-> l.chatId, messageId |-> m.idSer,
          ack |-> IF acked THEN S_server ELSE S_pending]
    ELSE ErrorResponse(500, "send failed")

\* msg.id._serialized of the event about message m; Undefined when msg has no id.
EventIdServerJs(m, withId) ==
    IF withId /\ (m = 0 \/ Truthy(msg[m][1].idSer))
    THEN MsgIdOf(m)
    ELSE Undefined

\* setTimeout(() => resolve(false), 10000): the listeners after the callback ran.
TimeoutKeepsListener(ls, r) == ls

\* client.emit("message_ack", msg, ack) in server.js: the listeners run in
\* registration order; an onAck that reads id._serialized of a missing id throws,
\* which ends the emit before the listeners behind it run.
EmitServerJs(m, withId, ack) ==
    /\ m = 0 \/ (m \in Slots /\ msg[m] # <<>>)
    /\ LET id == EventIdServerJs(m, withId)
           throws(i) == id = Undefined \/ ~Truthy(msg[listeners[i]][1].idSer)
           called(i) == \A j \in 1..(i - 1) : ~throws(j)
           hit(r) == \E i \in 1..Len(listeners) :
                        /\ listeners[i] = r
                        /\ called(i) /\ ~throws(i)
                        /\ id = msg[r][1].idSer
                        /\ ack >= 1
           first(r) == hit(r) /\ result[r] = <<>>
       IN  /\ timers' = timers \ {r \in Slots : hit(r)}
           /\ listeners' = RemoveListeners(listeners, {r \in Slots : hit(r)})
           /\ resolveCalls' = [r \in Slots |-> resolveCalls[r] + IF hit(r) THEN 1 ELSE 0]
           /\ result' = [r \in Slots |-> IF first(r) THEN <<[acked |-> TRUE]>> ELSE result[r]]
           /\ response' = [r \in Slots |->
                 IF first(r) THEN <<ResponseServerJs(loc[r], msg[r][1], TRUE)>> ELSE response[r]]
           /\ pc' = [r \in Slots |-> IF first(r) THEN "done" ELSE pc[r]]
           /\ resolvers' = [r \in Slots |-> IF hit(r) THEN resolvers[r] \cup {m} ELSE resolvers[r]]
    /\ UNCHANGED <<variant, isReady, body, readyAtStart, loc, getChatsCalls, sendCalls,
                   listed, msg, settled, qualObserved, firstQual, laterHigher, timerFired,
                   lastSub, earlyQual, parseVars, startVars, probeVars>>

\* The 10 s timer of request r fires: resolve(false), and the handler answers.
TimerFireServerJs(r) ==
    /\ r \in timers
    /\ timers' = timers \ {r}
    /\ timerFired' = [timerFired EXCEPT ![r] = TRUE]
    /\ listeners' = TimeoutKeepsListener(listeners, r)
    /\ resolveCalls' = [resolveCalls EXCEPT ![r] = @ + 1]
    /\ IF result[r] = <<>>
       THEN /\ result' = [result EXCEPT ![r] = <<[acked |-> FALSE]>>]
            /\ response' = [response EXCEPT ![r] = <<ResponseServerJs(loc[r], msg[r][1], FALSE)>>]
            /\ pc' = [pc EXCEPT ![r] = "done"]
       ELSE UNCHANGED <<result, response, pc>>
    /\ UNCHANGED <<variant, isReady, body, readyAtStart, loc, getChatsCalls, sendCalls,
                   listed, msg, settled, qualObserved, firstQual, laterHigher, resolvers,
                   lastSub, earlyQual, parseVars, startVars, probeVars>>

(***************************************************************************)
(* Start-up: the module's top level                                        *)
(***************************************************************************)
\* The top level runs to its first await: the guards, then mongoose.connect.
StartupGuards ==
    /\ proc.stage = "start"
    /\ proc' = IF GuardsExit(variant, env)
               THEN Proc("exited", <<1>>, <<>>)
               ELSE Proc("connecting", <<>>, <<>>)
    /\ UNCHANGED <<variant, env, handlerVars, waitVars, parseVars, probeVars>>

\* await mongoose.connect resolves; the top level runs on to client.initialize().
\* src/server.js decides about the backup here.
StoreConnected ==
    /\ proc.stage = "connecting"
    /\ proc' = Proc("initializing", <<>>,
                    IF variant = "server.js" THEN BackupInterval(variant, env) ELSE <<>>)
    /\ UNCHANGED <<variant, env, handlerVars, waitVars, parseVars, probeVars>>

\* await client.initialize() resolves; the top level runs on to app.listen.
\* src/unnamed/part_002 starts the backup here.
ClientInitialized ==
    /\ proc.stage = "initializing"
    /\ proc' = Proc("serving", <<>>,
                    IF variant = "server.js" THEN proc.backup ELSE BackupInterval(variant, env))
    /\ UNCHANGED <<variant, env, handlerVars, waitVars, parseVars, probeVars>>

\* A top-level await rejects: the module's evaluation fails and node exits with 1.
TopLevelAwaitRejects ==
    /\ proc.stage \in {"connecting", "initializing"}
    /\ proc' = Proc("exited", <<1>>, <<>>)
    /\ UNCHANGED <<variant, env, handlerVars, waitVars, parseVars, probeVars>>

(***************************************************************************)
(* Specifications                                                          *)
(***************************************************************************)
Next ==
    \/ OnReady
    \/ OnDisconnected
    \/ OnAuthFailure
    \/ \E r \in Reqs, b \in Bodies : Request(r, b)
    \/ \E r \in Reqs, chats \in ChatLists : GetChatsReturn(r, chats)
    \/ \E r \in Reqs : AwaitThrows(r)
    \/ \E r \in Reqs, form \in IdForms, ack \in HandleAcks : SendAccept(r, form, ack)
    \/ \E r \in Reqs : SendResume(r)
    \/ \E m \in {0} \cup Reqs, withId \in BOOLEAN, ack \in Levels : Emit(m, withId, ack)
    \/ \E r \in Reqs : TimerFire(r)

\* The handler and the ack wait of src/unnamed/part_002.
Spec == Init /\ [][Next]_vars

NextWait ==
    \/ \E w \in Waits, form \in IdForms, hAck \in HandleAcks, minAckCode \in MinAckCodes :
           CallWaitForAck(w, form, hAck, minAckCode, ACK_TIMEOUT_MS)
    \/ \E m \in {0} \cup Waits, withId \in BOOLEAN, ack \in Levels : Emit(m, withId, ack)
    \/ \E w \in Waits : TimerFire(w)

\* The awaited call of request r settles: getChats returns or rejects, sendMessage
\* is accepted or rejects.
AwaitSettles(r) ==
    \/ \E chats \in ChatLists : GetChatsReturn(r, chats)
    \/ \E form \in IdForms, ack \in HandleAcks : SendAccept(r, form, ack)
    \/ AwaitThrows(r)

\* The scheduling of the event loop: a settled promise's continuation runs, an
\* armed timer's callback runs; the awaited adapter calls are assumed to settle.
\* No message_ack event is ever required to be delivered.
Fairness ==
    \A r \in Reqs :
        /\ WF_vars(AwaitSettles(r))
        /\ WF_vars(SendResume(r))
        /\ WF_vars(TimerFire(r))

\* The handler and the ack wait of src/unnamed/part_002 under that scheduling.
SpecLive == Init /\ [][Next]_vars /\ Fairness

NextReadiness ==
    \/ Next
    \/ Healthz

\* The same handler together with the /healthz probe.
SpecReadiness == Init /\ [][NextReadiness]_vars

\* Concurrent calls of waitForAck (src/unnamed/part_002) on one client.
SpecWait == Init /\ [][NextWait]_vars

\* The same with the onAck filter of src/unnamed/part_000.
SpecWaitPart000 == InitPart000 /\ [][NextWait]_vars

\* parseAckLevel on its own.
SpecParse == InitParse /\ [][CallParseAckLevel]_vars

NextStartup ==
    \/ StartupGuards
    \/ StoreConnected
    \/ ClientInitialized
    \/ TopLevelAwaitRejects

\* The start of the process of src/unnamed/part_002.
SpecStartup == InitStartupPart002 /\ [][NextStartup]_vars

\* The start of the process of src/server.js (first listing).
SpecStartupServerJs == InitStartupServerJs /\ [][NextStartup]_vars

NextServerJs ==
    \/ OnReady
    \/ OnDisconnected
    \/ OnAuthFailure
    \/ \E r \in Reqs, b \in BodiesServerJs : RequestServerJs(r, b)
    \/ \E r \in Reqs, chat \in AllChats : GetChatByIdReturn(r, chat)
    \/ \E r \in Reqs : GetChatByIdThrows(r)
    \/ \E r \in Reqs, chats \in ChatLists : GetChatsReturn(r, chats)
    \/ \E r \in Reqs : AwaitThrows(r)
    \/ \E r \in Reqs, form \in IdForms, ack \in HandleAcks : SendAccept(r, form, ack)
    \/ \E r \in Reqs : SendResumeServerJs(r)
    \/ \E m \in {0} \cup Reqs, withId \in BOOLEAN, ack \in Levels : EmitServerJs(m, withId, ack)
    \/ \E r \in Reqs : TimerFireServerJs(r)

\* The handler and the inline ack wait of src/server.js (first listing).
SpecServerJs == InitServerJs /\ [][NextServerJs]_vars

(***************************************************************************)
(* Properties                                                              *)
(***************************************************************************)
Resolved(w) == result[w] # <<>>
TimedOut(w) == Resolved(w) /\ result[w][1].timedOut
Answered(r) == response[r] # <<>>
StatusOf(r) == response[r][1].status
BodyOf(r) == body[r][1]

\* C1: every wait is resolved exactly once: resolve() is called at most once per
\* wait, a wait has a value exactly when it was called, a timed-out result was
\* produced by the timer alone and an acknowledged result by an event, and once
\* the timer has run the wait has its value.
C1_ResolvedExactlyOnce ==
    \A w \in Slots :
        /\ resolveCalls[w] <= 1
        /\ Resolved(w) <=> resolveCalls[w] = 1
        /\ TimedOut(w) => timerFired[w] /\ resolvers[w] = {}
        /\ Resolved(w) /\ ~TimedOut(w) => Cardinality(resolvers[w]) = 1
        /\ timerFired[w] => Resolved(w)

\* C1 witness: a wait resolved by an event whose timer fired afterwards.
C1_Witness ==
    \E w \in Slots : Resolved(w) /\ ~TimedOut(w) /\ timerFired[w] /\ resolveCalls[w] = 1

\* C2: a resolution has timedOut = true exactly when no event for the awaited
\* identifier at a level >= the minimum was emitted between the call of
\* waitForAck and the firing of its timer.
C2_TimedOutIffNoQualifyingEvent ==
    \A w \in Slots : Resolved(w) => (result[w][1].timedOut <=> ~qualObserved[w])

\* C2 witness: one wait timed out and another was acknowledged.
C2_Witness ==
    \E w1, w2 \in Slots :
        /\ TimedOut(w1) /\ ~qualObserved[w1]
        /\ Resolved(w2) /\ ~TimedOut(w2) /\ qualObserved[w2]

\* C3: an event about outbound message A never resolves (or unsubscribes) the
\* wait registered for a different outbound message B.
C3_NoCrossResolve ==
    \A w \in Slots : resolvers[w] \cap (Slots \ {w}) = {}

\* C4: a wait acknowledged by an event reports the level of the first qualifying
\* event, whatever higher level arrived later.
C4_FirstQualifyingEventWins ==
    \A w \in Slots :
        Resolved(w) /\ ~TimedOut(w) =>
            /\ firstQual[w] # <<>>
            /\ result[w][1] = [ack |-> firstQual[w][1], timedOut |-> FALSE]

\* C4 witness: an acknowledged wait after which a higher qualifying level arrived.
C4_Witness ==
    \E w \in Slots :
        /\ Resolved(w) /\ ~TimedOut(w)
        /\ laterHigher[w]
        /\ result[w][1].ack >= loc[w].minAck

\* C5: an ack timeout is never an error status: a request whose sendMessage call
\* succeeded is answered 200 with ok: true if it is answered at all, it is
\* answered once its timer has fired, and the body carries timedOut: true when
\* the timer fired with no qualifying event before it.
C5_TimeoutIsNotAnError ==
    \A r \in Reqs :
        msg[r] # <<>> =>
            /\ timerFired[r] => Answered(r)
            /\ Answered(r) =>
                  /\ StatusOf(r) = 200
                  /\ response[r][1].ok = TRUE
                  /\ (timerFired[r] /\ ~qualObserved[r]) => response[r][1].timedOut = TRUE

\* C5 witness: a request answered 200 with timedOut: true after its timer fired.
C5_Witness ==
    \E r \in Reqs :
        /\ msg[r] # <<>> /\ Answered(r) /\ timerFired[r] /\ ~qualObserved[r]
        /\ StatusOf(r) = 200 /\ response[r][1].timedOut = TRUE

\* The levels the response names stand for.
LevelOfName(n) ==
    CASE n = S_server -> 1 [] n = S_device -> 2 [] n = S_read -> 3 [] n = S_played -> 4
      [] OTHER -> 0

\* C6: parseAckLevel is total onto the four levels: the name it returns is one of
\* server, device, read, played, the code is that name's level, and a string that
\* is none of the four names (in any case) yields server / 1.
C6_ParseAckLevelTotal ==
    parseOut # <<>> =>
        LET s == parseIn[1]
            out == parseOut[1]
        IN  /\ out.name \in AckNamesOwn
            /\ out.code = LevelOfName(out.name)
            /\ (Truthy(s) /\ ToLowerCase(s) \notin AckNamesOwn) =>
                   out = [name |-> S_server, code |-> 1]

\* C7: a request with a non-empty groupId sends to exactly that identifier,
\* trimmed, and never fetches the conversation list.
C7_ExplicitIdUsedDirectly ==
    \A r \in Reqs :
        (body[r] # <<>> /\ Trim(StringOrEmpty(BodyOf(r).groupId)) # <<>>) =>
            /\ getChatsCalls[r] = 0
            /\ listed[r] = <<>>
            /\ Len(sendCalls[r]) <= 1
            /\ \A i \in 1..Len(sendCalls[r]) :
                   sendCalls[r][i][1] = Trim(BodyOf(r).groupId)
            /\ (Answered(r) /\ StatusOf(r) = 200) =>
                   /\ Len(sendCalls[r]) = 1
                   /\ response[r][1].groupId = Trim(BodyOf(r).groupId)

\* C7 witness: a request carrying both a name and an identifier has sent.
C7_Witness ==
    \E r \in Reqs :
        /\ body[r] # <<>>
        /\ Trim(StringOrEmpty(BodyOf(r).groupId)) # <<>>
        /\ Trim(StringOrEmpty(BodyOf(r).group)) # <<>>
        /\ BodyOf(r).groupId # Trim(BodyOf(r).groupId)
        /\ Len(sendCalls[r]) = 1

\* The entries of a list that are groups named as requested, case-insensitively.
GroupsNamed(chats, name) ==
    {i \in 1..Len(chats) :
        /\ chats[i].isGroup
        /\ chats[i].name # Undefined
        /\ ToLowerCase(chats[i].name) = ToLowerCase(name)}

\* C8: name-based resolution sends to the first entry of the returned list that
\* is a group with the requested name (case-insensitive), and answers 404 without
\* sending when there is none.
C8_FirstGroupInListingOrder ==
    \A r \in Reqs :
        (body[r] # <<>> /\ listed[r] # <<>>) =>
            LET chats == listed[r][1]
                name == Trim(StringOrEmpty(BodyOf(r).group))
                found == GroupsNamed(chats, name)
            IN  /\ Trim(StringOrEmpty(BodyOf(r).groupId)) = <<>>
                /\ name # <<>>
                /\ found = {} =>
                      /\ Answered(r) /\ StatusOf(r) = 404
                      /\ sendCalls[r] = <<>>
                /\ found # {} =>
                      LET first == CHOOSE i \in found : \A j \in found : i <= j
                      IN  /\ Len(sendCalls[r]) = 1
                          /\ sendCalls[r][1][1] = chats[first].id
                          /\ chats[first].isGroup

\* C8 witness: the list held a same-named chat that is no group before two
\* matching groups, and the request has sent.
C8_Witness ==
    \E r \in Reqs :
        /\ body[r] # <<>> /\ listed[r] # <<>>
        /\ Cardinality(GroupsNamed(listed[r][1], Trim(StringOrEmpty(BodyOf(r).group)))) = 2
        /\ ~listed[r][1][1].isGroup
        /\ ToLowerCase(listed[r][1][1].name) = ToLowerCase(Trim(BodyOf(r).group))
        /\ Len(sendCalls[r]) = 1

\* C8 witness of the other branch: no group matched and the request was answered 404.
C8_WitnessNotFound ==
    \E r \in Reqs :
        /\ body[r] # <<>> /\ listed[r] # <<>>
        /\ GroupsNamed(listed[r][1], Trim(StringOrEmpty(BodyOf(r).group))) = {}
        /\ Answered(r) /\ StatusOf(r) = 404

\* No call to the adapter and no wait was made on behalf of request r.
NoSideEffects(r) ==
    /\ getChatsCalls[r] = 0
    /\ sendCalls[r] = <<>>
    /\ msg[r] = <<>>
    /\ ~IsListening(r)
    /\ r \notin timers
    /\ ~timerFired[r]

\* C9: a request whose handler starts while isReady is false is answered 503,
\* whatever its fields, without getChats, sendMessage, listener or timer.
C9_ReadinessGate ==
    \A r \in Reqs :
        (body[r] # <<>> /\ BodyOf(r).token = BOT_TOKEN /\ ~readyAtStart[r]) =>
            /\ Answered(r) /\ StatusOf(r) = 503
            /\ NoSideEffects(r)

\* C9 witness: a request that was complete and valid was answered 503, and the
\* client has become ready since.
C9_Witness ==
    \E r \in Reqs :
        /\ body[r] # <<>> /\ BodyOf(r).token = BOT_TOKEN /\ ~readyAtStart[r]
        /\ Trim(StringOrEmpty(BodyOf(r).message)) # <<>>
        /\ Trim(StringOrEmpty(BodyOf(r).groupId)) # <<>>
        /\ Answered(r) /\ StatusOf(r) = 503
        /\ isReady

\* C10 as stated: a request with an empty or missing message is answered 400
\* whatever its other fields are, and nothing is sent.
C10_EmptyMessageAlways400 ==
    \A r \in Reqs :
        (body[r] # <<>> /\ Trim(StringOrEmpty(BodyOf(r).message)) = <<>>) =>
            /\ Answered(r) /\ StatusOf(r) = 400
            /\ sendCalls[r] = <<>>

\* C10 amended: a request with an empty or missing message sends nothing and
\* fetches nothing; when it carries the right bot-token and is handled while the
\* client is ready it is answered 400, whatever group, groupId, ack and
\* timeoutMs are.
C10_EmptyMessage400WhenAuthorizedAndReady ==
    \A r \in Reqs :
        (body[r] # <<>> /\ Trim(StringOrEmpty(BodyOf(r).message)) = <<>>) =>
            /\ Answered(r)
            /\ NoSideEffects(r)
            /\ (BodyOf(r).token = BOT_TOKEN /\ readyAtStart[r]) => StatusOf(r) = 400

\* C10 witness: a request with a blank message and a usable groupId answered 400.
C10_Witness ==
    \E r \in Reqs :
        /\ body[r] # <<>>
        /\ BodyOf(r).message = <<" ">>
        /\ Trim(StringOrEmpty(BodyOf(r).groupId)) # <<>>
        /\ Answered(r) /\ StatusOf(r) = 400

\* C11: a request whose bot-token differs from the secret or is absent is
\* answered 401 and the handler body never runs for it: no locals are computed,
\* getChats and sendMessage are not called, no listener or timer is registered;
\* and the step that receives such a request leaves isReady as it was.
C11_UnauthorizedNoSideEffects ==
    /\ [](\A r \in Reqs :
            (body[r] # <<>> /\ BodyOf(r).token # BOT_TOKEN) =>
                /\ Answered(r) /\ StatusOf(r) = 401
                /\ loc[r] = NoLocals
                /\ listed[r] = <<>>
                /\ NoSideEffects(r))
    /\ [][\A r \in Reqs :
            (body[r] = <<>> /\ body'[r] # <<>> /\ body'[r][1].token # BOT_TOKEN) =>
                isReady' = isReady]_vars

\* C11 witness: a request without bot-token, otherwise complete and received
\* while the client was ready, was answered 401.
C11_Witness ==
    \E r \in Reqs :
        /\ body[r] # <<>> /\ BodyOf(r).token = Undefined /\ readyAtStart[r]
        /\ Trim(StringOrEmpty(BodyOf(r).message)) # <<>>
        /\ Trim(StringOrEmpty(BodyOf(r).groupId)) # <<>>
        /\ Answered(r) /\ StatusOf(r) = 401

\* C12: an authorized request received while ready, with a non-empty message and
\* a groupId that names no existing conversation, is answered 404 when it is
\* answered, as a group name that matches no group is.
C12_UnresolvableGroupId404 ==
    \A r \in Reqs :
        (/\ body[r] # <<>> /\ BodyOf(r).token = BOT_TOKEN /\ readyAtStart[r]
         /\ Trim(StringOrEmpty(BodyOf(r).message)) # <<>>
         /\ Trim(StringOrEmpty(BodyOf(r).groupId)) # <<>>
         /\ Trim(StringOrEmpty(BodyOf(r).groupId)) \notin ExistingChatIds
         /\ Answered(r)) =>
            StatusOf(r) = 404

\* C13: a request whose sendMessage call fails is answered 500 in the step the
\* failure is caught, sendMessage is called at most once per request, and a
\* request answered 500 has no message handle, no listener, no timer and no wait.
C13_SendFailureIs500NoRetryNoWait ==
    /\ [](\A r \in Reqs :
            /\ Len(sendCalls[r]) <= 1
            /\ (Answered(r) /\ StatusOf(r) = 500) =>
                  /\ msg[r] = <<>>
                  /\ ~IsListening(r)
                  /\ r \notin timers
                  /\ ~timerFired[r]
                  /\ result[r] = <<>>)
    /\ [][\A r \in Reqs :
            (pc[r] = "sendMessage" /\ pc'[r] # "sendMessage" /\ msg'[r] = <<>>) =>
                /\ response'[r] = <<ErrorResponse(500, "send failed")>>
                /\ sendCalls'[r] = sendCalls[r]
                /\ listeners' = listeners
                /\ timers' = timers]_vars

\* C13 witness: sendMessage to an existing conversation was called once, failed,
\* and the request was answered 500.
C13_Witness ==
    \E r \in Reqs :
        /\ Len(sendCalls[r]) = 1
        /\ sendCalls[r][1][1] \in ExistingChatIds
        /\ msg[r] = <<>>
        /\ Answered(r) /\ StatusOf(r) = 500

\* C14: an authorized request received while ready, with a non-empty message and
\* with group and groupId both empty after trimming, is answered 400, and neither
\* getChats nor sendMessage is called for it.
C14_NoTarget400 ==
    \A r \in Reqs :
        (/\ body[r] # <<>> /\ BodyOf(r).token = BOT_TOKEN /\ readyAtStart[r]
         /\ Trim(StringOrEmpty(BodyOf(r).message)) # <<>>
         /\ Trim(StringOrEmpty(BodyOf(r).group)) = <<>>
         /\ Trim(StringOrEmpty(BodyOf(r).groupId)) = <<>>) =>
            /\ Answered(r) /\ StatusOf(r) = 400
            /\ getChatsCalls[r] = 0
            /\ sendCalls[r] = <<>>

\* C14 witness: such a request, its groupId a blank string and its group absent,
\* was answered 400.
C14_Witness ==
    \E r \in Reqs :
        /\ body[r] # <<>> /\ BodyOf(r).token = BOT_TOKEN /\ readyAtStart[r]
        /\ Trim(StringOrEmpty(BodyOf(r).message)) # <<>>
        /\ BodyOf(r).group = Undefined
        /\ BodyOf(r).groupId = <<" ">>
        /\ Answered(r) /\ StatusOf(r) = 400

\* C15: the duration the timer of the ack wait is armed with (the handler's
\* timeoutMs local, passed to waitForAck and on to setTimeout) and the timeoutMs
\* field of the 200 response equal the caller's timeoutMs when the body carries
\* one, 0 included, and ACK_TIMEOUT_MS when it carries none.
C15_TimeoutIsCallerSupplied ==
    \A r \in Reqs :
        body[r] # <<>> =>
            LET requested == IF BodyOf(r).timeoutMs = <<>>
                             THEN ACK_TIMEOUT_MS
                             ELSE BodyOf(r).timeoutMs[1]
            IN  /\ r \in timers => loc[r].timeoutMs = requested
                /\ (Answered(r) /\ StatusOf(r) = 200) =>
                       response[r][1].timeoutMs = requested

\* What the gate is about: the secret and the store target are non-empty, and
\* the backup interval (WA_BACKUP_MS as a number, 0 when unset) is 0 or >= 60000.
ConfigurationValid ==
    LET raw == IF env.WA_BACKUP_MS = Undefined THEN <<"0">> ELSE env.WA_BACKUP_MS
        n == NumberOf(raw)
    IN  /\ env.BOT_TOKEN \notin {Undefined, <<>>}
        /\ env.MONGO_URL \notin {Undefined, <<>>}
        /\ ~n.nan
        /\ n.val = 0 \/ n.val >= 60000

\* C16: the process is serving only under a valid configuration, and under an
\* invalid one (missing secret, missing store target, interval non-numeric,
\* negative or strictly between 0 and 60000) it has exited with a non-zero code
\* as soon as its top level has run, without ever serving.
C16_StartupGate ==
    /\ proc.stage = "serving" => ConfigurationValid
    /\ (~ConfigurationValid /\ proc.stage # "start") =>
           /\ proc.stage = "exited"
           /\ proc.exitCode # <<>> /\ proc.exitCode[1] # 0

\* C17: a message_ack event whose identifier differs from the one a wait awaits,
\* or whose identifier is the awaited one but whose level is below the wait's
\* minimum, leaves the wait as it was: as long as no event for its identifier at
\* its minimum or above has been emitted and its timer has not fired, a wait
\* that was called is pending, its listener registered, its timer armed, settled
\* false and resolve() not called, whatever other events were emitted meanwhile.
C17_IgnoredEventLeavesWaitUnchanged ==
    \A w \in Waits :
        (pc[w] # "idle" /\ ~qualObserved[w] /\ ~timerFired[w]) =>
            /\ result[w] = <<>>
            /\ IsListening(w)
            /\ w \in timers
            /\ ~settled[w]
            /\ resolveCalls[w] = 0
            /\ pc[w] = "waitForAck"

\* C17 witness: a wait for read saw device for its identifier, stayed pending,
\* and was resolved by the read that followed, while another wait, for another
\* identifier, is still pending with listener and timer.
C17_Witness ==
    \E w, u \in Waits :
        /\ w # u
        /\ loc[w].minAck = 3 /\ lastSub[w] = <<2>>
        /\ Resolved(w) /\ result[w][1] = [ack |-> 3, timedOut |-> FALSE]
        /\ msg[u] # <<>> /\ Truthy(SerializedId(msg[u][1])) /\ loc[u].minAck = 1
        /\ ~Resolved(u) /\ IsListening(u) /\ u \in timers

\* C18: the listener of a wait is removed in the step in which the wait resolves,
\* by an event or by the timer: a wait that has resolved, or whose cleanup() has
\* run, has no message_ack listener on the client.
C18_ResolvedWaitHasNoListener ==
    \A w \in Waits : (Resolved(w) \/ settled[w]) => ~IsListening(w)

\* C18 witness: one wait resolved by an event and one by its timer, neither
\* listening, while no listener is left on the client.
C18_Witness ==
    \E w, u \in Waits :
        /\ Resolved(w) /\ ~TimedOut(w) /\ ~IsListening(w)
        /\ TimedOut(u) /\ ~IsListening(u)
        /\ listeners = <<>>

\* C19: the inline ack wait of server.js leaks no listener on timeout: a request
\* whose timer has fired has no message_ack listener, and whenever every request
\* that was received has been answered, no message_ack listener is registered.
C19_TimeoutLeaksNoListener ==
    /\ \A r \in Reqs : timerFired[r] => ~IsListening(r)
    /\ (\A r \in Reqs : body[r] # <<>> => Answered(r)) => Len(listeners) = 0

\* C20 as stated: a wait resolved by its timer reports the handle's own level,
\* server (1) when the handle carries none, with timedOut: true, and that level
\* is always one of server..played, so the response names one of those four.
C20_TimeoutLevelAtLeastServer ==
    \A r \in Reqs :
        TimedOut(r) =>
            /\ result[r][1].ack = IF msg[r][1].ack = <<>> THEN 1 ELSE msg[r][1].ack[1]
            /\ result[r][1].ack \in 1..4
            /\ Answered(r) => response[r][1].ack \in AckNamesOwn

\* C20 amended: a wait resolved by its timer reports the handle's own level, server
\* (1) when the handle carries none, with timedOut: true, and the response names
\* that level; the level is one of server..played when the handle carries no
\* level or one of these, and it is the sentinel error (0) when the handle holds 0.
C20_TimeoutReportsHandleLevel ==
    \A r \in Reqs :
        TimedOut(r) =>
            LET held == msg[r][1].ack
            IN  /\ result[r][1] = [ack |-> IF held = <<>> THEN 1 ELSE held[1],
                                   timedOut |-> TRUE]
                /\ Answered(r) =>
                       /\ response[r][1].timedOut = TRUE
                       /\ LevelOfName(response[r][1].ack) = result[r][1].ack
                /\ (held = <<>> \/ held[1] >= 1) => result[r][1].ack \in 1..4
                /\ held = <<0>> =>
                       /\ result[r][1].ack = 0
                       /\ Answered(r) => response[r][1].ack = S_error

\* C20 witness: a request whose handle held level 0 timed out and was answered
\* 200 with ack "error" and timedOut: true.
C20_Witness ==
    \E r \in Reqs :
        /\ TimedOut(r) /\ msg[r][1].ack = <<0>>
        /\ Answered(r) /\ StatusOf(r) = 200
        /\ response[r][1].ack = S_error /\ response[r][1].timedOut = TRUE

\* C21: a wait that times out after events for its identifier below its minimum
\* were delivered to it reports the level of the most recent of those events.
C21_TimeoutReportsLatestObservedLevel ==
    \A w \in Waits :
        (TimedOut(w) /\ lastSub[w] # <<>>) => result[w][1].ack = lastSub[w][1]

\* C22: per wait, cleanup() and resolve() run at most once, exactly once for a
\* wait that is settled, and the two handlers exclude each other: after the
\* timeout branch ran the wait has no listener and no event has resolved it, and
\* after the event branch ran the timer callback, when it runs, leaves the
\* event's resolution and the call count as they are.
C22_CleanupOnceHandlersExclusive ==
    \A w \in Waits :
        /\ resolveCalls[w] <= 1
        /\ settled[w] <=> resolveCalls[w] = 1
        /\ settled[w] => ~IsListening(w)
        /\ TimedOut(w) => timerFired[w] /\ resolvers[w] = {}
        /\ resolvers[w] # {} =>
              /\ Resolved(w) /\ ~result[w][1].timedOut
              /\ Cardinality(resolvers[w]) = 1

\* C22 witness: both orders with event and timer both due: one wait was resolved
\* by a qualifying event and its timer ran afterwards, the other was resolved by
\* its timer; each has had cleanup() and resolve() once.
C22_Witness ==
    \E w, u \in Waits :
        /\ resolvers[w] # {} /\ timerFired[w] /\ settled[w] /\ resolveCalls[w] = 1
        /\ TimedOut(u) /\ settled[u] /\ resolveCalls[u] = 1
        /\ Truthy(SerializedId(msg[u][1])) /\ loc[u].minAck = 1

\* The waits that were started and have not resolved.
UnresolvedWaits == {w \in Slots : pc[w] = "waitForAck" /\ result[w] = <<>>}

\* C23: the number of armed ack timers and the number of registered message_ack
\* listeners each equal the number of waits that have not resolved; a wait
\* resolved by an event has no armed timer.
C23_OneTimerOneListenerPerUnresolvedWait ==
    /\ Cardinality(timers) = Cardinality(UnresolvedWaits)
    /\ Len(listeners) = Cardinality(UnresolvedWaits)
    /\ \A w \in Slots : (Resolved(w) /\ resolvers[w] # {}) => w \notin timers

\* C24: no wait is pending without both its listener and its armed timer; with the
\* awaited calls settling and armed timers firing, every request that has entered
\* the handler is eventually answered, whether or not any message_ack event is
\* delivered; and a response, once sent, is never replaced by another.
C24_EveryWaitResolvesEveryRequestAnswered ==
    /\ [](\A r \in Reqs :
            (pc[r] = "waitForAck" /\ ~Resolved(r)) => (IsListening(r) /\ r \in timers))
    /\ \A r \in Reqs : (pc[r] = "waitForAck") ~> (Resolved(r) /\ Answered(r))
    /\ \A r \in Reqs : (pc[r] # "idle") ~> (pc[r] = "done" /\ Answered(r))
    /\ [][\A r \in Reqs : Answered(r) => response'[r] = response[r]]_vars

\* A request answered by the timer alone: no event for its message was delivered.
C24_Witness ==
    \E r \in Reqs :
        /\ TimedOut(r) /\ Answered(r) /\ StatusOf(r) = 200
        /\ lastSub[r] = <<>> /\ ~qualObserved[r] /\ resolvers[r] = {}
        /\ ~IsListening(r) /\ r \notin timers /\ pc[r] = "done"

\* C25: isReady is false at start and is written by the lifecycle events alone: in
\* every state it is true exactly when the latest of ready / disconnected /
\* auth_failure was ready, and no step of the /healthz or /send-group handlers,
\* error paths included, changes it.
C25_ReadyFollowsLifecycleOnly ==
    /\ [](isReady <=> lastLifecycle = "ready")
    /\ [][(pc' # pc \/ response' # response \/ health' # health) => isReady' = isReady]_vars

\* The client is ready, a request has failed in the catch block and a probe has
\* reported ready.
C25_Witness ==
    \E r \in Reqs :
        /\ Answered(r) /\ StatusOf(r) = 500 /\ readyAtStart[r]
        /\ isReady /\ lastLifecycle = "ready"
        /\ health # <<>> /\ health[1].ready

\* C26: whenever the handler calls client.sendMessage, isReady is true at that
\* moment, also when the client went down while the handler was suspended on
\* client.getChats().
C26_SendOnlyWhileReady ==
    [][\A r \in Reqs : Len(sendCalls'[r]) > Len(sendCalls[r]) => isReady]_vars

\* C27: a qualifying acknowledgment is never lost: when an event for the sent
\* message at a level >= the requested minimum was emitted after the transport
\* accepted the message and before the timer fired, whether before or after the
\* handler registered its listener, the 200 response has timedOut = FALSE.
C27_NoQualifyingAckLost ==
    \A r \in Reqs :
        (Answered(r) /\ StatusOf(r) = 200 /\ (earlyQual[r] \/ qualObserved[r]))
            => response[r][1].timedOut = FALSE

\* C28: in every 200 response that names one of the four levels as waitedFor,
\* timedOut = FALSE implies level(ack) >= level(waitedFor) and timedOut = TRUE
\* implies level(ack) < level(waitedFor), whatever level was requested and
\* whatever level the message handle carried when sendMessage returned it.
C28_TimedOutConsistentWithLevel ==
    \A r \in Reqs :
        (Answered(r) /\ StatusOf(r) = 200 /\ response[r][1].waitedFor \in AckNamesOwn) =>
            LET got == LevelOfName(response[r][1].ack)
                want == LevelOfName(response[r][1].waitedFor)
            IN  /\ response[r][1].timedOut = FALSE => got >= want
                /\ response[r][1].timedOut = TRUE => got < want
====
